---- MODULE Spec2Model ----
(***************************************************************************)
(* SubPDF.py: the PDF pipeline of main() -- one handle_pdf_link task per   *)
(* PDF URL on a ThreadPoolExecutor, a shared download folder, and the      *)
(* as_completed loop of the main thread that merges each task's            *)
(* (pdf_filename, domain_set) into the result dict -- and, before it, the  *)
(* collection of the seed URLs and the scan of the seed webpages.          *)
(*                                                                         *)
(* Strings the code takes apart (links, domains) are sequences of          *)
(* one-character strings.  A URL is a record of its host, its path (the    *)
(* sequence of the segments between the slashes; a path ending in "/" has  *)
(* a last segment "") and its query.  A file's content is a sequence of    *)
(* chunks, each a link the PDF carries as an annotation or in its text.    *)
(***************************************************************************)
EXTENDS Integers, Sequences, FiniteSets, TLC

\* ------------------------------------------------------------------------
\* Bounds of the model
\* ------------------------------------------------------------------------
MaxTasks == 2
MaxWorkers == 2
MaxFaults == 1
MaxChunks == 2

\* ------------------------------------------------------------------------
\* String helpers (str.lower, str.startswith, in, str.split(sep, 1))
\* ------------------------------------------------------------------------
UpperChars == <<"A", "B", "C", "D", "E", "F", "G", "H", "I", "J", "K", "L", "M",
                "N", "O", "P", "Q", "R", "S", "T", "U", "V", "W", "X", "Y", "Z">>

LowerChars == <<"a", "b", "c", "d", "e", "f", "g", "h", "i", "j", "k", "l", "m",
                "n", "o", "p", "q", "r", "s", "t", "u", "v", "w", "x", "y", "z">>

DigitChars == {"0", "1", "2", "3", "4", "5", "6", "7", "8", "9"}

LowerChar(c) ==
    IF \E i \in 1..Len(UpperChars) : UpperChars[i] = c
    THEN LowerChars[CHOOSE i \in 1..Len(UpperChars) : UpperChars[i] = c]
    ELSE c

lower(s) == [i \in 1..Len(s) |-> LowerChar(s[i])]

startswith(s, p) == Len(s) >= Len(p) /\ SubSeq(s, 1, Len(p)) = p

endswith(s, p) == Len(s) >= Len(p) /\ SubSeq(s, Len(s) - Len(p) + 1, Len(s)) = p

contains(s, c) == \E i \in 1..Len(s) : s[i] = c

\* str.find: the least index at which sub occurs in s, 0 when it does not.
find(s, sub) ==
    LET hits == {i \in 1..(Len(s) - Len(sub) + 1) : SubSeq(s, i, i + Len(sub) - 1) = sub}
    IN  IF hits = {} THEN 0 ELSE CHOOSE i \in hits : \A j \in hits : i <= j

\* s.split(sep, 1): <<s>> when sep does not occur, else <<before, after>>.
split1(s, sep) ==
    LET i == find(s, sep)
    IN  IF i = 0 THEN <<s>>
        ELSE <<SubSeq(s, 1, i - 1), SubSeq(s, i + Len(sep), Len(s))>>

\* ------------------------------------------------------------------------
\* urlparse(link).netloc
\* ------------------------------------------------------------------------
IsLetter(c) ==
    \E i \in 1..Len(UpperChars) : UpperChars[i] = c \/ LowerChars[i] = c

IsSchemeChar(c) == IsLetter(c) \/ c \in DigitChars \/ c \in {"+", "-", "."}

\* The text after the scheme and its colon; the whole text when it has none.
AfterScheme(link) ==
    LET i == find(link, <<":">>)
    IN  IF /\ i > 1
           /\ IsLetter(link[1])
           /\ \A j \in 1..(i - 1) : IsSchemeChar(link[j])
        THEN SubSeq(link, i + 1, Len(link))
        ELSE link

\* The network location: what follows "//" up to the first of / ? #.
netloc(link) ==
    LET rest == AfterScheme(link)
    IN  IF ~startswith(rest, <<"/", "/">>) THEN <<>>
        ELSE LET body == SubSeq(rest, 3, Len(rest))
                 ends == {i \in 1..Len(body) : body[i] \in {"/", "?", "#"}}
                 stop == IF ends = {} THEN Len(body) + 1
                         ELSE CHOOSE i \in ends : \A j \in ends : i <= j
             IN  SubSeq(body, 1, stop - 1)

\* urlsplit raises ValueError("Invalid IPv6 URL") on an unbalanced bracket.
urlparse_raises(link) ==
    LET n == netloc(link)
    IN  contains(n, "[") /= contains(n, "]")

\* ------------------------------------------------------------------------
\* parse_domains_from_links
\* ------------------------------------------------------------------------
mailto == <<"m", "a", "i", "l", "t", "o", ":">>

IsMailto(link) == startswith(lower(link), mailto) /\ contains(link, "@")

\* One link's part of the loop body: whether it raises, and what it adds.
parse_link(link) ==
    IF IsMailto(link)
    THEN LET parts == split1(link, mailto)
         IN  IF Len(parts) < 2
             THEN [raised |-> TRUE, domains |-> {}]
             ELSE LET email_part == parts[2]
                  IN  IF contains(email_part, "@")
                      THEN [raised |-> FALSE,
                            domains |-> {lower(split1(email_part, <<"@">>)[2])}]
                      ELSE [raised |-> FALSE, domains |-> {}]
    ELSE IF urlparse_raises(link)
         THEN [raised |-> TRUE, domains |-> {}]
         ELSE IF netloc(link) /= <<>>
              THEN [raised |-> FALSE, domains |-> {lower(netloc(link))}]
              ELSE [raised |-> FALSE, domains |-> {}]

\* The links the modelled PDFs carry.
LinkHttp == <<"h", "t", "t", "p", ":", "/", "/", "A", ".", "b", "/", "x">>
LinkMail == <<"m", "a", "i", "l", "t", "o", ":", "x", "@", "C", ".", "d">>
LinkFtp  == <<"f", "t", "p", ":", "/", "/", "o", ".", "p">>
LinkRel  == <<"x", "/", "y">>
LinkBad  == <<"h", "t", "t", "p", ":", "/", "/", "[", "e">>
\* MAILTO:x@C.d
LinkMailUpper == <<"M", "A", "I", "L", "T", "O", ":", "x", "@", "C", ".", "d">>
\* mailto:a@b@C.d
LinkMailTwoAts == <<"m", "a", "i", "l", "t", "o", ":", "a", "@", "b", "@", "C", ".", "d">>

Links == {LinkHttp, LinkMail, LinkFtp, LinkRel, LinkBad, LinkMailUpper, LinkMailTwoAts}

\* parse_link of each of them, computed once.
ParsedLinks == [l \in Links |-> parse_link(l)]

Parsed(link) == IF link \in Links THEN ParsedLinks[link] ELSE parse_link(link)

\* The loop over link_set: an exception of one link ends the function.
parse_domains_from_links(link_set) ==
    [raised  |-> \E l \in link_set : Parsed(l).raised,
     domains |-> UNION {Parsed(l).domains : l \in {k \in link_set : ~Parsed(k).raised}}]

\* ------------------------------------------------------------------------
\* The remote world: the PDF URLs a run can be given and what each serves
\* ------------------------------------------------------------------------

UrlA == [host |-> "a", path |-> <<"x", "r.pdf">>, query |-> ""]
UrlB == [host |-> "b", path |-> <<"y", "r.pdf">>, query |-> ""]
UrlC == [host |-> "c", path |-> <<"s.pdf">>, query |-> ""]
UrlD == [host |-> "d", path |-> <<"">>, query |-> "f=.pdf"]
UrlE == [host |-> "e", path |-> <<"t.pdf">>, query |-> ""]

PdfUrls == {UrlA, UrlB, UrlC, UrlD, UrlE}

BodyA == <<[kind |-> "annot", link |-> LinkHttp]>>
BodyB == <<[kind |-> "text", link |-> LinkMail], [kind |-> "text", link |-> LinkRel]>>
BodyD == <<[kind |-> "text", link |-> LinkBad]>>
BodyOld == <<[kind |-> "annot", link |-> LinkFtp]>>

\* session.get(pdf_url, timeout=30): a response with its status code and
\* content, or a RequestException ("error").
Remote(url) ==
    CASE url = UrlA -> [kind |-> "response", status_code |-> 200, content |-> BodyA]
      [] url = UrlB -> [kind |-> "response", status_code |-> 200, content |-> BodyB]
      [] url = UrlC -> [kind |-> "response", status_code |-> 404, content |-> <<>>]
      [] url = UrlD -> [kind |-> "response", status_code |-> 200, content |-> BodyD]
      [] OTHER      -> [kind |-> "error", status_code |-> 0, content |-> <<>>]

\* ------------------------------------------------------------------------
\* download_pdf / handle_pdf_link: the file name a URL is stored under
\* ------------------------------------------------------------------------
\* os.path.basename(urlparse(pdf_url).path)
basename(url) == IF url.path = <<>> THEN "" ELSE url.path[Len(url.path)]

Filename(url) == IF basename(url) = "" THEN "temp.pdf" ELSE basename(url)

\* ------------------------------------------------------------------------
\* extract_links_from_pdf: the two passes over a file's content
\* ------------------------------------------------------------------------
\* Pass 1 adds each annotation URI as it meets it; an annotation that cannot
\* be read ("badannot") raises there, and what was added before is kept.
AnnotationPass(content) ==
    LET bad  == {i \in 1..Len(content) : content[i].kind = "badannot"}
        stop == IF bad = {} THEN Len(content) + 1
                ELSE CHOOSE i \in bad : \A j \in bad : i <= j
    IN  {content[i].link : i \in {j \in 1..(stop - 1) : content[j].kind = "annot"}}

\* (mailto:[^\s)]+|ftp://[^\s)]+|file://[^\s)]+|https?://[^\s)]+) on one
\* word of the text that holds no ")" : it matches from the start of the
\* word, in the letter case of the pattern, and needs a character after the
\* prefix.
url_prefixes ==
    {<<"m", "a", "i", "l", "t", "o", ":">>,
     <<"f", "t", "p", ":", "/", "/">>,
     <<"f", "i", "l", "e", ":", "/", "/">>,
     <<"h", "t", "t", "p", ":", "/", "/">>,
     <<"h", "t", "t", "p", "s", ":", "/", "/">>}

url_pattern(word) ==
    \E prefix \in url_prefixes : startswith(word, prefix) /\ Len(word) > Len(prefix)

\* Pass 2 collects the text of every page and then scans it; a page whose
\* text cannot be extracted ("badtext") raises before any link is added.
TextPass(content) ==
    IF \E i \in 1..Len(content) : content[i].kind = "badtext" THEN {}
    ELSE {content[i].link : i \in {j \in 1..Len(content) :
                                      content[j].kind = "text" /\ url_pattern(content[j].link)}}

\* f.write(data) through a handle at offset 0 of a file that holds old.
Overlay(data, old) == data \o SubSeq(old, Len(data) + 1, Len(old))

\* ------------------------------------------------------------------------
\* State
\* ------------------------------------------------------------------------
VARIABLES
    ephemeral_mode,  \* main: no --download-folder was given
    max_workers,     \* main: args.threads
    futures,         \* main: the submitted PDF links, in submission order
    folder,          \* whether download_folder exists on disk
    dir,             \* download_folder: file name -> inode
    disk,            \* inode -> content; inode t is the file task t created,
                     \* inode 0 a file that was there before the run
    pc,              \* each task's position in handle_pdf_link
    filepath,        \* handle_pdf_link: what download_pdf returned ("" is None)
    fh,              \* download_pdf: the inode of the open handle f, -1 if none
    urls_found,      \* extract_links_from_pdf: the links found so far
    domain_set,      \* handle_pdf_link: the domains of the task
    yielded,         \* main: the futures as_completed has handed out
    result,          \* main: the result dict
    mainpc,          \* main: position of the main thread
    run,             \* which run over the same folder this is
    first_result,    \* the result dict of the run before
    gets,            \* history: the GETs each task issued
    seen,            \* history: what each task's os.path.exists answered
    writers,         \* history: inode -> the tasks that opened it for writing
    accessed,        \* history: <<task, inode>> for each size check, pass or remove
    faults,          \* history: the file-system faults injected so far
    dir0,            \* history: dir when the run started
    rmtree,          \* history: "no", "removed" or "failed"
    args,            \* main: the seed options --url, --pdf-url, --input-list, --input-json
    scanpc,          \* main: position in the collection of the PDF links
    all_urls,        \* main: the seed URLs of all options
    all_pdf_urls,    \* main: the seeds taken for direct PDF references
    all_webpage_urls,\* main: the seeds taken for webpages
    all_pdf_links,   \* main: the PDF links to submit
    todo,            \* main: the webpages the for loop has still to visit
    scans,           \* history: URL -> calls of get_all_pdf_links_from_website on it
    found            \* history: URL -> what the last such call returned

\* main from the submission of the tasks on
pipeline == <<ephemeral_mode, max_workers, futures, folder, dir, disk, pc, filepath, fh,
              urls_found, domain_set, yielded, result, mainpc, run, first_result,
              gets, seen, writers, accessed, faults, dir0, rmtree>>

\* main up to the submission of the tasks
scan == <<args, scanpc, all_urls, all_pdf_urls, all_webpage_urls, all_pdf_links, todo,
          scans, found>>

vars == <<pipeline, scan>>

inputs == <<ephemeral_mode, max_workers, futures, dir0, scan>>

Tasks == 1..Len(futures)

NoFiles == [name \in {} |-> 0]

EmptyDict == [name \in {} |-> {}]

\* all_pdf_links is a set: no URL is submitted twice.
Submissions ==
    {s \in UNION {[1..n -> PdfUrls] : n \in 0..MaxTasks} :
        \A i, j \in 1..Len(s) : i /= j => s[i] /= s[j]}

\* A folder given with --download-folder may hold a file of an earlier run.
OldFiles == [name \in {"r.pdf"} |-> 0]

NoArgs == [url |-> <<>>, pdf_url |-> <<>>, input_list |-> <<>>, input_json |-> <<>>]

NoScans == [u \in {} |-> 0]

NoneFound == [u \in {} |-> {}]

\* The collection is over and what it found is submitted.
Submitted ==
    /\ args = NoArgs
    /\ scanpc = "submitted"
    /\ all_urls = {}
    /\ all_pdf_urls = {}
    /\ all_webpage_urls = {}
    /\ all_pdf_links = {}
    /\ todo = {}
    /\ scans = NoScans
    /\ found = NoneFound

InitRun ==
    /\ ephemeral_mode \in BOOLEAN
    /\ max_workers \in 1..MaxWorkers
    /\ futures \in Submissions
    /\ dir \in (IF ephemeral_mode THEN {NoFiles} ELSE {NoFiles, OldFiles})
    /\ folder = (ephemeral_mode \/ dir /= NoFiles)
    /\ disk = [i \in 0..Len(futures) |-> IF i = 0 THEN BodyOld ELSE <<>>]
    /\ pc = [t \in Tasks |-> "queued"]
    /\ filepath = [t \in Tasks |-> ""]
    /\ fh = [t \in Tasks |-> -1]
    /\ urls_found = [t \in Tasks |-> {}]
    /\ domain_set = [t \in Tasks |-> {}]
    /\ yielded = {}
    /\ result = EmptyDict
    /\ mainpc = "as_completed"
    /\ run = 1
    /\ first_result = EmptyDict
    /\ gets = [t \in Tasks |-> 0]
    /\ seen = [t \in Tasks |-> "unchecked"]
    /\ writers = [i \in 0..Len(futures) |-> {}]
    /\ accessed = {}
    /\ faults = 0
    /\ dir0 = dir
    /\ rmtree = "no"

Init == InitRun /\ Submitted

\* ------------------------------------------------------------------------
\* The worker pool
\* ------------------------------------------------------------------------
Finished(t) == pc[t] \in {"returned", "raised"}

Running(t) == pc[t] \notin {"queued", "returned", "raised"}

\* A pool thread is idle and t is the oldest work item in the queue.
WorkerFree(t) ==
    /\ \A s \in Tasks : s < t => pc[s] /= "queued"
    /\ Cardinality({s \in Tasks : Running(s)}) < max_workers

\* handle_pdf_link starts; download_pdf's os.makedirs(exist_ok=True).
Start(t) ==
    /\ pc[t] = "queued"
    /\ WorkerFree(t)
    /\ pc' = [pc EXCEPT ![t] = "exists"]
    /\ folder' = TRUE
    /\ UNCHANGED <<inputs, dir, disk, filepath, fh, urls_found, domain_set, yielded,
                   result, mainpc, run, first_result, gets, seen, writers, accessed,
                   faults, rmtree>>

\* ------------------------------------------------------------------------
\* download_pdf
\* ------------------------------------------------------------------------
\* exists that finds no file.
existsNever(d, name) == FALSE

exists(d, name) == name \in DOMAIN d

\* Exists with the check left out: every task goes on to its GET.
ExistsSkipped(t) ==
    /\ pc[t] = "exists"
    /\ pc' = [pc EXCEPT ![t] = "get"]
    /\ seen' = [seen EXCEPT ![t] = IF Filename(futures[t]) \in DOMAIN dir
                                   THEN "present" ELSE "absent"]
    /\ UNCHANGED <<inputs, folder, dir, disk, filepath, fh, urls_found, domain_set,
                   yielded, result, mainpc, run, first_result, gets, writers, accessed,
                   faults, rmtree>>

\* if os.path.exists(filepath): return filepath
Exists(t) ==
    /\ pc[t] = "exists"
    /\ LET name == Filename(futures[t])
       IN  IF exists(dir, name)
           THEN /\ filepath' = [filepath EXCEPT ![t] = name]
                /\ pc' = [pc EXCEPT ![t] = "getsize"]
           ELSE /\ filepath' = filepath
                /\ pc' = [pc EXCEPT ![t] = "get"]
    /\ seen' = [seen EXCEPT ![t] = IF Filename(futures[t]) \in DOMAIN dir
                                   THEN "present" ELSE "absent"]
    /\ UNCHANGED <<inputs, folder, dir, disk, fh, urls_found, domain_set, yielded,
                   result, mainpc, run, first_result, gets, writers, accessed,
                   faults, rmtree>>

\* Get with the except clause left out: a failed request leaves the task.
GetUncaught(t) ==
    /\ pc[t] = "get"
    /\ LET resp == Remote(futures[t])
       IN  pc' = [pc EXCEPT ![t] = IF resp.kind = "response" /\ resp.status_code = 200
                                   THEN "open" ELSE "raised"]
    /\ gets' = [gets EXCEPT ![t] = @ + 1]
    /\ UNCHANGED <<inputs, folder, dir, disk, filepath, fh, urls_found, domain_set,
                   yielded, result, mainpc, run, first_result, seen, writers,
                   accessed, faults, rmtree>>

\* Get after which a failed download goes on to the extraction.
GetThenExtract(t) ==
    /\ pc[t] = "get"
    /\ LET resp == Remote(futures[t])
       IN  pc' = [pc EXCEPT ![t] = IF resp.kind = "response" /\ resp.status_code = 200
                                   THEN "open" ELSE "getsize"]
    /\ gets' = [gets EXCEPT ![t] = @ + 1]
    /\ UNCHANGED <<inputs, folder, dir, disk, filepath, fh, urls_found, domain_set,
                   yielded, result, mainpc, run, first_result, seen, writers,
                   accessed, faults, rmtree>>

\* resp = session.get(pdf_url, timeout=30); a status other than 200 and a
\* RequestException both end download_pdf with None, and handle_pdf_link
\* with (the derived file name, set()).
Get(t) ==
    /\ pc[t] = "get"
    /\ LET resp == Remote(futures[t])
       IN  pc' = [pc EXCEPT ![t] = IF resp.kind = "response" /\ resp.status_code = 200
                                   THEN "open" ELSE "returned"]
    /\ gets' = [gets EXCEPT ![t] = @ + 1]
    /\ UNCHANGED <<inputs, folder, dir, disk, filepath, fh, urls_found, domain_set,
                   yielded, result, mainpc, run, first_result, seen, writers,
                   accessed, faults, rmtree>>

\* open(filepath, "wb"): creates the file, or truncates the one that is there.
Open(t) ==
    /\ pc[t] = "open"
    /\ folder
    /\ LET name  == Filename(futures[t])
           inode == IF name \in DOMAIN dir THEN dir[name] ELSE t
       IN  /\ dir' = [n \in DOMAIN dir \cup {name} |-> IF n = name THEN inode ELSE dir[n]]
           /\ disk' = [disk EXCEPT ![inode] = <<>>]
           /\ fh' = [fh EXCEPT ![t] = inode]
           /\ writers' = [writers EXCEPT ![inode] = @ \cup {t}]
    /\ pc' = [pc EXCEPT ![t] = "write"]
    /\ UNCHANGED <<inputs, folder, filepath, urls_found, domain_set, yielded, result,
                   mainpc, run, first_result, gets, seen, accessed, faults, rmtree>>

\* open raises OSError (the folder is gone, the disk is full, no permission):
\* not a RequestException, so it leaves download_pdf and handle_pdf_link.
OpenFails(t) ==
    /\ pc[t] = "open"
    /\ ~folder \/ faults < MaxFaults
    /\ faults' = IF folder THEN faults + 1 ELSE faults
    /\ pc' = [pc EXCEPT ![t] = "raised"]
    /\ UNCHANGED <<inputs, folder, dir, disk, filepath, fh, urls_found, domain_set,
                   yielded, result, mainpc, run, first_result, gets, seen, writers,
                   accessed, rmtree>>

\* f.write(resp.content), the close of the with block, return filepath
Write(t) ==
    /\ pc[t] = "write"
    /\ disk' = [disk EXCEPT ![fh[t]] = Overlay(Remote(futures[t]).content, @)]
    /\ fh' = [fh EXCEPT ![t] = -1]
    /\ filepath' = [filepath EXCEPT ![t] = Filename(futures[t])]
    /\ pc' = [pc EXCEPT ![t] = "getsize"]
    /\ UNCHANGED <<inputs, folder, dir, urls_found, domain_set, yielded, result,
                   mainpc, run, first_result, gets, seen, writers, accessed, faults,
                   rmtree>>

\* ------------------------------------------------------------------------
\* extract_links_from_pdf, parse_domains_from_links, os.remove
\* ------------------------------------------------------------------------
\* if os.path.getsize(filepath) == 0: return urls_found
\* (getsize of a path that is gone raises FileNotFoundError, outside any try)
GetSize(t) ==
    /\ pc[t] = "getsize"
    /\ IF ~exists(dir, filepath[t])
       THEN /\ pc' = [pc EXCEPT ![t] = "raised"]
            /\ accessed' = accessed
       ELSE /\ pc' = [pc EXCEPT ![t] = IF Len(disk[dir[filepath[t]]]) = 0
                                       THEN "parse" ELSE "annot"]
            /\ accessed' = accessed \cup {<<t, dir[filepath[t]]>>}
    /\ UNCHANGED <<inputs, folder, dir, disk, filepath, fh, urls_found, domain_set,
                   yielded, result, mainpc, run, first_result, gets, seen, writers,
                   faults, rmtree>>

\* Annot with its try left out: an annotation that cannot be read ends the task.
AnnotUncaught(t) ==
    /\ pc[t] = "annot"
    /\ IF ~exists(dir, filepath[t])
       THEN UNCHANGED <<urls_found, accessed>>
       ELSE /\ urls_found' = [urls_found EXCEPT
                                ![t] = @ \cup AnnotationPass(disk[dir[filepath[t]]])]
            /\ accessed' = accessed \cup {<<t, dir[filepath[t]]>>}
    /\ pc' = [pc EXCEPT ![t] = IF /\ exists(dir, filepath[t])
                                  /\ \E i \in 1..Len(disk[dir[filepath[t]]]) :
                                        disk[dir[filepath[t]]][i].kind = "badannot"
                               THEN "raised" ELSE "text"]
    /\ UNCHANGED <<inputs, folder, dir, disk, filepath, fh, domain_set, yielded, result,
                   mainpc, run, first_result, gets, seen, writers, faults, rmtree>>

\* 1) the annotation pass; an exception (the file is gone, the PDF does not
\* parse) is caught and logged.
Annot(t) ==
    /\ pc[t] = "annot"
    /\ IF ~exists(dir, filepath[t])
       THEN UNCHANGED <<urls_found, accessed>>
       ELSE /\ urls_found' = [urls_found EXCEPT
                                ![t] = @ \cup AnnotationPass(disk[dir[filepath[t]]])]
            /\ accessed' = accessed \cup {<<t, dir[filepath[t]]>>}
    /\ pc' = [pc EXCEPT ![t] = "text"]
    /\ UNCHANGED <<inputs, folder, dir, disk, filepath, fh, domain_set, yielded, result,
                   mainpc, run, first_result, gets, seen, writers, faults, rmtree>>

\* 2) the text pass, with its own try
Text(t) ==
    /\ pc[t] = "text"
    /\ IF ~exists(dir, filepath[t])
       THEN UNCHANGED <<urls_found, accessed>>
       ELSE /\ urls_found' = [urls_found EXCEPT
                                ![t] = @ \cup TextPass(disk[dir[filepath[t]]])]
            /\ accessed' = accessed \cup {<<t, dir[filepath[t]]>>}
    /\ pc' = [pc EXCEPT ![t] = "parse"]
    /\ UNCHANGED <<inputs, folder, dir, disk, filepath, fh, domain_set, yielded, result,
                   mainpc, run, first_result, gets, seen, writers, faults, rmtree>>

\* Parse that also stores the domains in the result dict from the pool thread.
ParseAndStore(t) ==
    /\ pc[t] = "parse"
    /\ LET r == parse_domains_from_links(urls_found[t])
       IN  IF r.raised
           THEN /\ pc' = [pc EXCEPT ![t] = "raised"]
                /\ domain_set' = domain_set
                /\ result' = result
           ELSE /\ pc' = [pc EXCEPT ![t] = IF ephemeral_mode THEN "remove" ELSE "returned"]
                /\ domain_set' = [domain_set EXCEPT ![t] = r.domains]
                /\ result' = [n \in DOMAIN result \cup {filepath[t]} |->
                                 IF n = filepath[t] THEN r.domains ELSE result[n]]
    /\ UNCHANGED <<inputs, folder, dir, disk, filepath, fh, urls_found, yielded,
                   mainpc, run, first_result, gets, seen, writers, accessed, faults,
                   rmtree>>

\* domain_set = parse_domains_from_links(link_set); an exception of it (str
\* index, urlparse) is caught nowhere in handle_pdf_link.
Parse(t) ==
    /\ pc[t] = "parse"
    /\ LET r == parse_domains_from_links(urls_found[t])
       IN  IF r.raised
           THEN /\ pc' = [pc EXCEPT ![t] = "raised"]
                /\ domain_set' = domain_set
           ELSE /\ pc' = [pc EXCEPT ![t] = IF ephemeral_mode THEN "remove" ELSE "returned"]
                /\ domain_set' = [domain_set EXCEPT ![t] = r.domains]
    /\ UNCHANGED <<inputs, folder, dir, disk, filepath, fh, urls_found, yielded, result,
                   mainpc, run, first_result, gets, seen, writers, accessed, faults,
                   rmtree>>

\* Remove that empties the folder instead of removing the task's own file.
RemoveEveryFile(t) ==
    /\ pc[t] = "remove"
    /\ dir' = NoFiles
    /\ accessed' = accessed \cup {<<t, dir[n]>> : n \in DOMAIN dir}
    /\ pc' = [pc EXCEPT ![t] = "returned"]
    /\ UNCHANGED <<inputs, folder, disk, filepath, fh, urls_found, domain_set, yielded,
                   result, mainpc, run, first_result, gets, seen, writers, faults,
                   rmtree>>

\* if ephemeral_mode: os.remove(filepath); an OSError (the file is gone) is
\* caught and logged.
Remove(t) ==
    /\ pc[t] = "remove"
    /\ IF exists(dir, filepath[t])
       THEN /\ dir' = [n \in DOMAIN dir \ {filepath[t]} |-> dir[n]]
            /\ accessed' = accessed \cup {<<t, dir[filepath[t]]>>}
       ELSE UNCHANGED <<dir, accessed>>
    /\ pc' = [pc EXCEPT ![t] = "returned"]
    /\ UNCHANGED <<inputs, folder, disk, filepath, fh, urls_found, domain_set, yielded,
                   result, mainpc, run, first_result, gets, seen, writers, faults,
                   rmtree>>

\* os.remove raises OSError although the file is there; caught and logged.
RemoveFails(t) ==
    /\ pc[t] = "remove"
    /\ exists(dir, filepath[t])
    /\ faults < MaxFaults
    /\ faults' = faults + 1
    /\ pc' = [pc EXCEPT ![t] = "returned"]
    /\ UNCHANGED <<inputs, folder, dir, disk, filepath, fh, urls_found, domain_set,
                   yielded, result, mainpc, run, first_result, gets, seen, writers,
                   accessed, rmtree>>

\* pdf_filename that is the placeholder name for every task.
pdf_filename_placeholder(t) == "temp.pdf"

\* What fut.result() returns for a task that returned: line 216 on a failed
\* download, line 230 otherwise.
pdf_filename(t) ==
    IF filepath[t] = "" THEN Filename(futures[t]) ELSE filepath[t]

\* ------------------------------------------------------------------------
\* main: the as_completed loop, the end of the with block, the cleanup
\* ------------------------------------------------------------------------
\* merge that assigns the key instead of updating its set.
mergeOverwrites(res, name, domains) ==
    [n \in DOMAIN res \cup {name} |-> IF n = name THEN domains ELSE res[n]]

\* if pdf_filename not in result: result[pdf_filename] = set()
\* result[pdf_filename].update(domain_set)
merge(res, name, domains) ==
    [n \in DOMAIN res \cup {name} |->
        IF n = name
        THEN (IF name \in DOMAIN res THEN res[name] ELSE {}) \cup domains
        ELSE res[n]]

Merge(t) ==
    /\ mainpc = "as_completed"
    /\ t \notin yielded
    /\ pc[t] = "returned"
    /\ result' = merge(result, pdf_filename(t), domain_set[t])
    /\ yielded' = yielded \cup {t}
    /\ UNCHANGED <<inputs, folder, dir, disk, pc, filepath, fh, urls_found, domain_set,
                   mainpc, run, first_result, gets, seen, writers, accessed, faults,
                   rmtree>>

\* Catch with the try left out: the exception of fut.result() ends main.
CatchAborts(t) ==
    /\ mainpc = "as_completed"
    /\ t \notin yielded
    /\ pc[t] = "raised"
    /\ mainpc' = "aborted"
    /\ UNCHANGED <<inputs, folder, dir, disk, pc, filepath, fh, urls_found, domain_set,
                   yielded, result, run, first_result, gets, seen, writers, accessed,
                   faults, rmtree>>

\* Catch that throws away what was merged so far.
CatchDropsResult(t) ==
    /\ mainpc = "as_completed"
    /\ t \notin yielded
    /\ pc[t] = "raised"
    /\ yielded' = yielded \cup {t}
    /\ result' = EmptyDict
    /\ UNCHANGED <<inputs, folder, dir, disk, pc, filepath, fh, urls_found, domain_set,
                   mainpc, run, first_result, gets, seen, writers, accessed,
                   faults, rmtree>>

\* except Exception as e: logging.error(...)
Catch(t) ==
    /\ mainpc = "as_completed"
    /\ t \notin yielded
    /\ pc[t] = "raised"
    /\ yielded' = yielded \cup {t}
    /\ UNCHANGED <<inputs, folder, dir, disk, pc, filepath, fh, urls_found, domain_set,
                   result, mainpc, run, first_result, gets, seen, writers, accessed,
                   faults, rmtree>>

\* Drained that is content with the first completion.
DrainedEarly == yielded /= {}

\* as_completed(futures) is exhausted once it has handed out every future.
Drained == yielded = Tasks

\* The loop ends and the with block shuts the pool down (wait=True).
ExitPool ==
    /\ mainpc = "as_completed"
    /\ Drained
    /\ mainpc' = "cleanup"
    /\ UNCHANGED <<inputs, folder, dir, disk, pc, filepath, fh, urls_found, domain_set,
                   yielded, result, run, first_result, gets, seen, writers, accessed,
                   faults, rmtree>>

\* 7) if ephemeral_mode: shutil.rmtree(download_folder, ignore_errors=True)
RmTree ==
    /\ mainpc = "cleanup"
    /\ ephemeral_mode
    /\ folder' = FALSE
    /\ dir' = NoFiles
    /\ rmtree' = "removed"
    /\ mainpc' = "end"
    /\ UNCHANGED <<inputs, disk, pc, filepath, fh, urls_found, domain_set, yielded,
                   result, run, first_result, gets, seen, writers, accessed, faults>>

\* rmtree fails; ignore_errors=True swallows the error and the folder stays.
RmTreeFails ==
    /\ mainpc = "cleanup"
    /\ ephemeral_mode
    /\ faults < MaxFaults
    /\ faults' = faults + 1
    /\ rmtree' = "failed"
    /\ mainpc' = "end"
    /\ UNCHANGED <<inputs, folder, dir, disk, pc, filepath, fh, urls_found, domain_set,
                   yielded, result, run, first_result, gets, seen, writers, accessed>>

\* A permanent folder is left as it is.
KeepFolder ==
    /\ mainpc = "cleanup"
    /\ ~ephemeral_mode
    /\ mainpc' = "end"
    /\ UNCHANGED <<inputs, folder, dir, disk, pc, filepath, fh, urls_found, domain_set,
                   yielded, result, run, first_result, gets, seen, writers, accessed,
                   faults, rmtree>>

\* ------------------------------------------------------------------------
\* A second run of main over the same --download-folder
\* ------------------------------------------------------------------------
SecondRun ==
    /\ mainpc = "end"
    /\ ~ephemeral_mode
    /\ run = 1
    /\ run' = 2
    /\ first_result' = result
    /\ result' = EmptyDict
    /\ pc' = [t \in Tasks |-> "queued"]
    /\ filepath' = [t \in Tasks |-> ""]
    /\ urls_found' = [t \in Tasks |-> {}]
    /\ domain_set' = [t \in Tasks |-> {}]
    /\ yielded' = {}
    /\ mainpc' = "as_completed"
    /\ gets' = [t \in Tasks |-> 0]
    /\ seen' = [t \in Tasks |-> "unchecked"]
    /\ dir0' = dir
    /\ UNCHANGED <<ephemeral_mode, max_workers, futures, folder, dir, disk, fh, writers,
                   accessed, faults, rmtree, scan>>

\* ------------------------------------------------------------------------
\* handle_pdf_link tasks run one after the other, in submission order
\* ------------------------------------------------------------------------
RECURSIVE RunInTurn(_, _, _)
RunInTurn(i, files, res) ==
    IF i > Len(futures) THEN res
    ELSE LET name == Filename(futures[i])
             resp == Remote(futures[i])
             have == name \in DOMAIN files
             ok   == resp.kind = "response" /\ resp.status_code = 200
         IN  IF ~have /\ ~ok
             THEN RunInTurn(i + 1, files, merge(res, name, {}))
             ELSE LET content == IF have THEN files[name] ELSE resp.content
                      links   == IF Len(content) = 0 THEN {}
                                 ELSE AnnotationPass(content) \cup TextPass(content)
                      r       == parse_domains_from_links(links)
                      kept    == [n \in DOMAIN files \cup {name} |->
                                     IF n = name THEN content ELSE files[n]]
                      left    == IF ephemeral_mode /\ ~r.raised
                                 THEN [n \in DOMAIN kept \ {name} |-> kept[n]]
                                 ELSE kept
                  IN  RunInTurn(i + 1, left,
                                IF r.raised THEN res ELSE merge(res, name, r.domains))

\* ------------------------------------------------------------------------
\* The seeds a run can be given, as the strings main tests them by, and the
\* pages they serve
\* ------------------------------------------------------------------------
dotpdf == <<".", "p", "d", "f">>

\* http://p/i : a page with anchors
PageP == <<"h", "t", "t", "p", ":", "/", "/", "p", "/", "i">>
\* http://q/ : answers 404
PageQ == <<"h", "t", "t", "p", ":", "/", "/", "q", "/">>
\* http://r/ : the request fails
PageR == <<"h", "t", "t", "p", ":", "/", "/", "r", "/">>
\* http://p/A.PDF
SeedPdf == <<"h", "t", "t", "p", ":", "/", "/", "p", "/", "A", ".", "P", "D", "F">>
\* http://p/a.pdf?v : a PDF path followed by a query
SeedQuery == <<"h", "t", "t", "p", ":", "/", "/", "p", "/", "a", ".", "p", "d", "f", "?", "v">>

Seeds == {PageP, PageQ, PageR, SeedPdf, SeedQuery}

\* the href attributes of the anchors of http://p/i
HrefsP == <<<<"/", "b", ".", "p", "d", "f">>,
            <<"c", ".", "P", "D", "F">>,
            <<"/", "e", ".", "p", "d", "f", "?", "x">>,
            <<"/", "f", "?", "g", "=", ".", "p", "d", "f">>,
            <<"/", "h">>,
            <<"h", "t", "t", "p", ":", "/", "/", "p", "/", "A", ".", "P", "D", "F">>,
            <<"/", "k", ".", "p", "d", "f", "#", "s">>>>

\* session.get(base_url, timeout=15) and the a_tag["href"] of its anchors
Page(url) ==
    CASE url = PageP -> [kind |-> "response", status_code |-> 200, hrefs |-> HrefsP]
      [] url = PageQ -> [kind |-> "response", status_code |-> 404, hrefs |-> <<>>]
      [] url = PageR -> [kind |-> "error", status_code |-> 0, hrefs |-> <<>>]
      [] OTHER       -> [kind |-> "response", status_code |-> 200, hrefs |-> <<>>]

\* ------------------------------------------------------------------------
\* urljoin and get_all_pdf_links_from_website
\* ------------------------------------------------------------------------
\* The scheme with its colon ("http:"), empty when the text has none.
scheme_prefix(link) == SubSeq(link, 1, Len(link) - Len(AfterScheme(link)))

\* urlparse(link).path: what follows the network location up to ? or #.
urlpath(link) ==
    LET rest  == AfterScheme(link)
        after == IF startswith(rest, <<"/", "/">>)
                 THEN SubSeq(rest, 3 + Len(netloc(link)), Len(rest))
                 ELSE rest
        ends  == {i \in 1..Len(after) : after[i] \in {"?", "#"}}
        stop  == IF ends = {} THEN Len(after) + 1
                 ELSE CHOOSE i \in ends : \A j \in ends : i <= j
    IN  SubSeq(after, 1, stop - 1)

\* A path up to and with its last slash.
dirname(path) ==
    LET slashes == {i \in 1..Len(path) : path[i] = "/"}
    IN  IF slashes = {} THEN <<"/">>
        ELSE SubSeq(path, 1, CHOOSE i \in slashes : \A j \in slashes : j <= i)

\* urljoin(base_url, href) for an href that is empty, absolute, rooted at "/"
\* or relative to the page's directory (no dot segments, no "//host").
urljoin(base, href) ==
    IF href = <<>> THEN base
    ELSE IF AfterScheme(href) /= href THEN href
    ELSE IF startswith(href, <<"/">>)
         THEN scheme_prefix(base) \o <<"/", "/">> \o netloc(base) \o href
         ELSE scheme_prefix(base) \o <<"/", "/">> \o netloc(base)
                  \o dirname(urlpath(base)) \o href

\* The scanner with the test done on the URL as written, not lowercased.
get_all_pdf_links_caseful(base_url) ==
    LET resp == Page(base_url)
    IN  IF resp.kind = "response" /\ resp.status_code = 200
        THEN {u \in {urljoin(base_url, resp.hrefs[i]) : i \in 1..Len(resp.hrefs)} :
                 endswith(u, dotpdf)}
        ELSE {}

\* A status other than 200 and a RequestException leave pdf_links empty.
get_all_pdf_links_from_website(base_url) ==
    LET resp == Page(base_url)
    IN  IF resp.kind = "response" /\ resp.status_code = 200
        THEN {u \in {urljoin(base_url, resp.hrefs[i]) : i \in 1..Len(resp.hrefs)} :
                 endswith(lower(u), dotpdf)}
        ELSE {}

\* ------------------------------------------------------------------------
\* main: the collection of the seeds and of the PDF links (steps 5 and 6)
\* ------------------------------------------------------------------------
Range(seq) == {seq[i] : i \in 1..Len(seq)}

\* The lines of an --input-list file and the entries of an --input-json file,
\* stripped; an empty one is skipped.
SeedLists ==
    {<<>>, <<PageP>>, <<SeedPdf>>, <<PageQ, <<>>, PageP>>, <<SeedQuery, SeedPdf>>}

\* An option that is not given is empty.
Args ==
    [url : Seeds \cup {<<>>}, pdf_url : Seeds \cup {<<>>},
     input_list : SeedLists, input_json : SeedLists]

\* The run before the collection; nothing is submitted yet.
InitScan ==
    /\ InitRun
    /\ ephemeral_mode
    /\ max_workers = 1
    /\ futures = <<>>
    /\ args \in Args
    /\ scanpc = "collect"
    /\ all_urls = {}
    /\ all_pdf_urls = {}
    /\ all_webpage_urls = {}
    /\ all_pdf_links = {}
    /\ todo = {}
    /\ scans = NoScans
    /\ found = NoneFound

\* url.lower().endswith(".pdf")
is_pdf(url) == endswith(lower(url), dotpdf)

\* One more call of get_all_pdf_links_from_website(url) in the history.
Scanned(sc, url) ==
    [u \in DOMAIN sc \cup {url} |->
        IF u = url THEN (IF url \in DOMAIN sc THEN sc[url] ELSE 0) + 1 ELSE sc[u]]

Returned(fd, url, links) ==
    [u \in DOMAIN fd \cup {url} |-> IF u = url THEN links ELSE fd[u]]

\* 5) all_urls from the four options, then the split by the ".pdf" test
Collect ==
    /\ scanpc = "collect"
    /\ LET urls == {u \in ({args.url, args.pdf_url} \cup Range(args.input_list)
                              \cup Range(args.input_json)) : u /= <<>>}
       IN  /\ all_urls' = urls
           /\ all_pdf_urls' = {u \in urls : is_pdf(u)}
           /\ all_webpage_urls' = {u \in urls : ~is_pdf(u)}
    /\ scanpc' = "url"
    /\ UNCHANGED <<pipeline, args, all_pdf_links, todo, scans, found>>

\* if args.url: scan it; then all_pdf_links.update(all_pdf_urls)
ScanUrl ==
    /\ scanpc = "url"
    /\ IF args.url /= <<>>
       THEN LET webpage_pdf_links == get_all_pdf_links_from_website(args.url)
            IN  /\ all_pdf_links' = webpage_pdf_links \cup all_pdf_urls
                /\ scans' = Scanned(scans, args.url)
                /\ found' = Returned(found, args.url, webpage_pdf_links)
       ELSE /\ all_pdf_links' = all_pdf_urls
            /\ UNCHANGED <<scans, found>>
    /\ todo' = all_webpage_urls
    /\ scanpc' = "pages"
    /\ UNCHANGED <<pipeline, args, all_urls, all_pdf_urls, all_webpage_urls>>

\* for webpage_url in all_webpage_urls: one turn of the loop
ScanPage(webpage_url) ==
    /\ scanpc = "pages"
    /\ webpage_url \in todo
    /\ LET pdf_links == get_all_pdf_links_from_website(webpage_url)
       IN  /\ all_pdf_links' = all_pdf_links \cup pdf_links
           /\ scans' = Scanned(scans, webpage_url)
           /\ found' = Returned(found, webpage_url, pdf_links)
    /\ todo' = todo \ {webpage_url}
    /\ UNCHANGED <<pipeline, args, scanpc, all_urls, all_pdf_urls, all_webpage_urls>>

\* for pdf_link in all_pdf_links: threadpool.submit(handle_pdf_link, ...)
Submit ==
    /\ scanpc = "pages"
    /\ todo = {}
    /\ scanpc' = "submitted"
    /\ UNCHANGED <<pipeline, args, all_urls, all_pdf_urls, all_webpage_urls,
                   all_pdf_links, todo, scans, found>>

\* ------------------------------------------------------------------------
\* One task over a file that a permanent folder already holds
\* ------------------------------------------------------------------------
\* What a PDF can carry: a link as an annotation URI or as a word of its
\* text, an annotation that cannot be read, a page whose text cannot be
\* extracted.
Chunks ==
    [kind : {"annot", "text"}, link : Links]
        \cup [kind : {"badannot", "badtext"}, link : {<<>>}]

Contents == UNION {[1..n -> Chunks] : n \in 0..MaxChunks}

\* --download-folder holds r.pdf, with any content, and the one PDF link
\* submitted derives that name.
InitFile ==
    /\ ephemeral_mode = FALSE
    /\ max_workers = 1
    /\ futures = <<UrlA>>
    /\ dir = OldFiles
    /\ folder = TRUE
    /\ disk \in {[i \in 0..1 |-> IF i = 0 THEN content ELSE <<>>] : content \in Contents}
    /\ pc = [t \in Tasks |-> "queued"]
    /\ filepath = [t \in Tasks |-> ""]
    /\ fh = [t \in Tasks |-> -1]
    /\ urls_found = [t \in Tasks |-> {}]
    /\ domain_set = [t \in Tasks |-> {}]
    /\ yielded = {}
    /\ result = EmptyDict
    /\ mainpc = "as_completed"
    /\ run = 1
    /\ first_result = EmptyDict
    /\ gets = [t \in Tasks |-> 0]
    /\ seen = [t \in Tasks |-> "unchecked"]
    /\ writers = [i \in 0..Len(futures) |-> {}]
    /\ accessed = {}
    /\ faults = 0
    /\ dir0 = dir
    /\ rmtree = "no"
    /\ Submitted

\* ------------------------------------------------------------------------
\* Specifications
\* ------------------------------------------------------------------------
Next ==
    \/ \E t \in Tasks : Start(t)
    \/ \E t \in Tasks : Exists(t)
    \/ \E t \in Tasks : Get(t)
    \/ \E t \in Tasks : Open(t)
    \/ \E t \in Tasks : OpenFails(t)
    \/ \E t \in Tasks : Write(t)
    \/ \E t \in Tasks : GetSize(t)
    \/ \E t \in Tasks : Annot(t)
    \/ \E t \in Tasks : Text(t)
    \/ \E t \in Tasks : Parse(t)
    \/ \E t \in Tasks : Remove(t)
    \/ \E t \in Tasks : RemoveFails(t)
    \/ \E t \in Tasks : Merge(t)
    \/ \E t \in Tasks : Catch(t)
    \/ ExitPool
    \/ RmTree
    \/ RmTreeFails
    \/ KeepFolder

Spec == Init /\ [][Next]_vars

\* Two runs in sequence over one permanent folder.
NextTwice == Next \/ SecondRun

SpecTwice == Init /\ [][NextTwice]_vars

\* main from the options to the submission of the PDF links.
NextScan ==
    \/ Collect
    \/ ScanUrl
    \/ \E w \in Seeds : ScanPage(w)
    \/ Submit

SpecScan == InitScan /\ [][NextScan]_vars

\* The steps a task takes over a file it finds in a permanent folder.
NextFile ==
    \/ \E t \in Tasks : Start(t)
    \/ \E t \in Tasks : Exists(t)
    \/ \E t \in Tasks : GetSize(t)
    \/ \E t \in Tasks : Annot(t)
    \/ \E t \in Tasks : Text(t)
    \/ \E t \in Tasks : Parse(t)
    \/ \E t \in Tasks : Merge(t)
    \/ \E t \in Tasks : Catch(t)
    \/ ExitPool
    \/ KeepFolder

SpecFile == InitFile /\ [][NextFile]_vars

\* Every pool thread and the main thread keep being scheduled, and every
\* request returns (timeout=30): a step that stays possible is taken.
TaskStep(t) ==
    /\ t \in Tasks
    /\ \/ Start(t)
       \/ Exists(t)
       \/ Get(t)
       \/ Open(t)
       \/ OpenFails(t)
       \/ Write(t)
       \/ GetSize(t)
       \/ Annot(t)
       \/ Text(t)
       \/ Parse(t)
       \/ Remove(t)
       \/ RemoveFails(t)

MainStep ==
    \/ \E t \in Tasks : Merge(t)
    \/ \E t \in Tasks : Catch(t)
    \/ ExitPool
    \/ RmTree
    \/ RmTreeFails
    \/ KeepFolder

FairSpec ==
    /\ Spec
    /\ \A t \in 1..MaxTasks : WF_vars(TaskStep(t))
    /\ WF_vars(MainStep)

\* ------------------------------------------------------------------------
\* Vocabulary of the properties
\* ------------------------------------------------------------------------
Ok(resp) == resp.kind = "response" /\ resp.status_code = 200

\* The task issued its GET and got a status other than 200 or an exception.
DownloadFailed(t) == gets[t] > 0 /\ ~Ok(Remote(futures[t]))

DistinctFilenames ==
    \A t1, t2 \in Tasks : t1 /= t2 => Filename(futures[t1]) /= Filename(futures[t2])

\* The domains a file content resolves to when nothing interferes.
DomainsOf(content) ==
    IF Len(content) = 0 THEN {}
    ELSE parse_domains_from_links(AnnotationPass(content) \cup TextPass(content)).domains

\* What a task reads when no other task touches its file: the file that was
\* in the folder when the run started, else the body its URL serves.
OwnDomains(t) ==
    IF Filename(futures[t]) \in DOMAIN dir0 THEN DomainsOf(BodyOld)
    ELSE IF Ok(Remote(futures[t])) THEN DomainsOf(Remote(futures[t]).content)
    ELSE {}

\* ------------------------------------------------------------------------
\* C1: when a run has finished, the keys of the result mapping are exactly
\* the file names derived from the submitted PDF URLs, whatever step of a
\* task failed.
\* ------------------------------------------------------------------------
C1_KeysAreSubmittedFilenames ==
    mainpc = "end" => DOMAIN result = {Filename(futures[t]) : t \in Tasks}

C3_SameAsOneWorker ==
    (mainpc = "end" /\ faults = 0) =>
        result = RunInTurn(1, [n \in DOMAIN dir0 |-> BodyOld], EmptyDict)

\* ------------------------------------------------------------------------
\* C4: termination.  A running task can always take its next step (it waits
\* on no other task), and under fair scheduling the run ends with every task
\* in its final state and every completion handed to the main thread.
\* ------------------------------------------------------------------------
C4_Terminates ==
    /\ [](\A t \in Tasks : Running(t) => ENABLED TaskStep(t))
    /\ <>[](/\ mainpc = "end"
            /\ yielded = Tasks
            /\ \A t \in Tasks : Finished(t))

\* Two tasks on one worker: the second had to queue, and the run has ended.
C4_Witness ==
    /\ mainpc = "end"
    /\ Len(futures) = 2
    /\ max_workers = 1
    /\ \A t \in Tasks : Finished(t)

\* ------------------------------------------------------------------------
\* C5 as claimed: at most one GET per distinct target file name, so no two
\* tasks with the same file name both issue a GET.
\* ------------------------------------------------------------------------
C5_OneGetPerFilename ==
    \A t1, t2 \in Tasks :
        (t1 /= t2 /\ Filename(futures[t1]) = Filename(futures[t2]))
            => ~(gets[t1] > 0 /\ gets[t2] > 0)

\* C5 as amended: each task issues at most one GET, and only after its own
\* existence check found no file of its name in the folder.
C5_GetOnlyAfterAbsentCheck ==
    \A t \in Tasks :
        /\ gets[t] <= 1
        /\ gets[t] > 0 => seen[t] = "absent"

\* Two tasks with the same file name have both issued their GET.
C5_Witness ==
    \E t1, t2 \in Tasks :
        /\ t1 /= t2
        /\ Filename(futures[t1]) = Filename(futures[t2])
        /\ gets[t1] > 0
        /\ gets[t2] > 0
        /\ seen[t1] = "absent"
        /\ seen[t2] = "absent"

\* ------------------------------------------------------------------------
\* C6 as claimed: a file written by one task is never read (size check,
\* annotation pass, text pass) or deleted by a different task.
\* ------------------------------------------------------------------------
C6_NoSharedArtifact ==
    \A a \in accessed : writers[a[2]] \subseteq {a[1]}

\* C6 as amended: a task reads or deletes a file another task wrote only when
\* both tasks' URLs derive the same file name.
C6_SharedOnlyBySameFilename ==
    \A a \in accessed :
        \A w \in writers[a[2]] :
            Filename(futures[w]) = Filename(futures[a[1]])

\* A task has read or deleted a file that another task wrote.
C6_Witness ==
    \E a \in accessed : \E w \in writers[a[2]] : w /= a[1]

\* ------------------------------------------------------------------------
\* C7: in ephemeral mode, once a task that wrote a file has completed
\* (returned or raised), that file is no longer in the folder -- here even
\* with no file-system fault.
\* ------------------------------------------------------------------------
C7_NoArtifactOutlivesTask ==
    (ephemeral_mode /\ faults = 0) =>
        \A t \in Tasks :
            Finished(t) =>
                \A i \in DOMAIN writers :
                    t \in writers[i] => \A n \in DOMAIN dir : dir[n] /= i

\* ------------------------------------------------------------------------
\* C8: in ephemeral mode rmtree is called only after every task has completed
\* and every completion was handed out; it has been called when the run ends,
\* the run ends also when rmtree failed, and the folder is gone unless it
\* failed; so no task takes a step once the folder was removed.
\* ------------------------------------------------------------------------
C8_FolderRemovedLast ==
    /\ (mainpc \in {"cleanup", "end"} \/ rmtree /= "no") =>
           /\ yielded = Tasks
           /\ \A t \in Tasks : Finished(t)
    /\ rmtree /= "no" => (ephemeral_mode /\ mainpc = "end")
    /\ (mainpc = "end" /\ ephemeral_mode) =>
           /\ rmtree /= "no"
           /\ rmtree = "removed" => (~folder /\ dir = NoFiles)
    /\ (ephemeral_mode /\ rmtree = "no") => folder

\* An ephemeral run of two tasks has ended and its folder is gone.
C8_Witness ==
    /\ ephemeral_mode
    /\ mainpc = "end"
    /\ rmtree = "removed"
    /\ ~folder
    /\ Len(futures) = 2
    /\ \E t \in Tasks : writers[t] /= {}

\* ------------------------------------------------------------------------
\* C9: idempotence in permanent mode.  With no file-system fault, the second
\* run over the same folder downloads only file names that had no file when
\* it started, and its result mapping equals the first run's.
\* ------------------------------------------------------------------------
C9_SecondRunIdentical ==
    (run = 2 /\ mainpc = "end" /\ faults = 0) =>
        /\ \A t \in Tasks : gets[t] > 0 => Filename(futures[t]) \notin DOMAIN dir0
        /\ result = first_result

\* ------------------------------------------------------------------------
\* C10: single writer.  Every step that changes the result mapping is a step
\* of the main thread's as_completed loop that hands out exactly one
\* completion, moves no task, and changes the entry of one key only.
\* ------------------------------------------------------------------------
C10_ResultChange ==
    result' /= result =>
        /\ mainpc = "as_completed"
        /\ mainpc' = "as_completed"
        /\ pc' = pc
        /\ \E t \in Tasks :
              /\ t \notin yielded
              /\ pc[t] = "returned"
              /\ yielded' = yielded \cup {t}
              /\ DOMAIN result' = DOMAIN result \cup {pdf_filename(t)}
              /\ \A n \in DOMAIN result : n /= pdf_filename(t) => result'[n] = result[n]

C10_SingleWriter == [][C10_ResultChange]_vars

\* The mapping already holds a merged entry while a task is still running.
C10_Witness ==
    /\ result /= EmptyDict
    /\ \E n \in DOMAIN result : result[n] /= {}
    /\ \E t \in Tasks : Running(t)

\* ------------------------------------------------------------------------
\* C11: merge order independence.  In every state the result mapping is
\* determined by the set of (file name, domain set) pairs handed out so far,
\* not by the order they were handed out in: its keys are the file names of
\* these pairs and each key maps to the union of all domain sets returned
\* under it.
\* ------------------------------------------------------------------------
Merged == {t \in yielded : pc[t] = "returned"}

C11_ResultIsUnionOfPairs ==
    result = [n \in {pdf_filename(t) : t \in Merged} |->
                 UNION {domain_set[t] : t \in {s \in Merged : pdf_filename(s) = n}}]

\* Two tasks returned different domain sets under one file name, and the key
\* holds both.
C11_Witness ==
    /\ mainpc = "end"
    /\ \E t1, t2 \in Merged :
          /\ t1 /= t2
          /\ pdf_filename(t1) = pdf_filename(t2)
          /\ domain_set[t1] /= {}
          /\ domain_set[t2] /= {}
          /\ domain_set[t1] /= domain_set[t2]
          /\ result[pdf_filename(t1)] = domain_set[t1] \cup domain_set[t2]

\* ------------------------------------------------------------------------
\* C12: when the PDF links are submitted, every seed webpage, whichever
\* option supplied it, was scanned exactly once, and nothing was scanned
\* that is not a seed (no URL found on a page is followed).
\* ------------------------------------------------------------------------
C12_EachWebpageScannedOnce ==
    scanpc = "submitted" =>
        /\ \A u \in all_urls :
              ~is_pdf(u) => (u \in DOMAIN scans /\ scans[u] = 1)
        /\ \A u \in DOMAIN scans : u \in all_urls

\* ------------------------------------------------------------------------
\* C13: when the PDF links are submitted, every seed, whichever option
\* supplied it, was either submitted as a task and never scanned as a
\* webpage, or scanned and never submitted: one of the two, never both.
\* ------------------------------------------------------------------------
C13_SeedEitherTaskOrWebpage ==
    scanpc = "submitted" =>
        \A u \in all_urls : (u \in all_pdf_links) /= (u \in DOMAIN scans)

\* ------------------------------------------------------------------------
\* C20 as claimed: of the anchors of a page fetched with status 200, the
\* scanner returns exactly the resolved URLs whose lowercased path component
\* ends in ".pdf"; on another status or a transport error it returns the
\* empty set.
\* ------------------------------------------------------------------------
Fetched(url) == Page(url).kind = "response" /\ Page(url).status_code = 200

Resolved(url) == {urljoin(url, Page(url).hrefs[i]) : i \in 1..Len(Page(url).hrefs)}

MailtoAnyCase(link) == startswith(lower(link), mailto) /\ contains(link, "@")

AfterLastAt(link) ==
    LET ats == {i \in 1..Len(link) : link[i] = "@"}
    IN  SubSeq(link, (CHOOSE i \in ats : \A j \in ats : j <= i) + 1, Len(link))

Resolving(t) == pc[t] \in {"remove", "returned", "raised"} /\ filepath[t] /= ""

C14_MailtoDomainAfterLastAt ==
    \A t \in Tasks :
        (Resolving(t) /\ urls_found[t] /= {} /\ \A l \in urls_found[t] : MailtoAnyCase(l)) =>
            /\ pc[t] /= "raised"
            /\ domain_set[t] = {lower(AfterLastAt(l)) : l \in urls_found[t]}

\* ------------------------------------------------------------------------
\* C19: extraction pass independence.  Once both passes have run over a
\* non-empty file, the links found are exactly those of the annotation pass
\* (the annotation URIs up to an annotation that cannot be read) together
\* with those of the text pass (the words of the text the pattern matches,
\* none if a page's text cannot be extracted): a failure of one pass takes
\* nothing from the other, and the task goes on to the resolution -- it
\* raises only if the resolution of the links raises.
\* ------------------------------------------------------------------------
Extracted(t) == pc[t] \in {"parse", "remove", "returned", "raised"} /\ filepath[t] /= ""

FromAnnotations(content, link) ==
    \E i \in 1..Len(content) :
        /\ content[i] = [kind |-> "annot", link |-> link]
        /\ \A j \in 1..i : content[j].kind /= "badannot"

FromText(content, link) ==
    /\ \A j \in 1..Len(content) : content[j].kind /= "badtext"
    /\ \E i \in 1..Len(content) : content[i] = [kind |-> "text", link |-> link]
    /\ url_pattern(link)

C19_PassesIndependent ==
    \A t \in Tasks :
        (Extracted(t) /\ Len(disk[dir[filepath[t]]]) > 0) =>
            /\ \A l \in Links :
                  l \in urls_found[t] <=>
                      \/ FromAnnotations(disk[dir[filepath[t]]], l)
                      \/ FromText(disk[dir[filepath[t]]], l)
            /\ urls_found[t] \subseteq Links
            /\ pc[t] = "raised" => parse_domains_from_links(urls_found[t]).raised

\* A task returned the link of the text of a file whose annotation pass
\* failed, and a task returned the annotation of a file whose text pass
\* failed.
C19_Witness ==
    \E t \in Tasks :
        /\ pc[t] = "returned"
        /\ filepath[t] /= ""
        /\ \/ /\ disk[dir[filepath[t]]] = <<[kind |-> "badannot", link |-> <<>>],
                                             [kind |-> "text", link |-> LinkHttp]>>
              /\ urls_found[t] = {LinkHttp}
           \/ /\ disk[dir[filepath[t]]] = <<[kind |-> "annot", link |-> LinkMail],
                                             [kind |-> "badtext", link |-> <<>>]>>
              /\ urls_found[t] = {LinkMail}
        /\ domain_set[t] /= {}

\* ------------------------------------------------------------------------
\* C15: per-task step order.  A task's steps follow one another as download
\* (existence check, GET, open, write), extraction (size check, the two
\* passes) only once download_pdf returned a path, resolution, removal only
\* in ephemeral mode and never skipped there, done.  A task whose download
\* failed goes from its GET straight to done with the derived file name and
\* the empty set, having touched no file, and a task that is done takes no
\* further step.  (A step that raises leaves the sequence.)
\* ------------------------------------------------------------------------
StepOrder ==
    {<<"queued", "exists">>, <<"exists", "get">>, <<"exists", "getsize">>,
     <<"get", "open">>, <<"get", "returned">>, <<"open", "write">>,
     <<"write", "getsize">>, <<"getsize", "annot">>, <<"getsize", "parse">>,
     <<"annot", "text">>, <<"text", "parse">>, <<"parse", "remove">>,
     <<"parse", "returned">>, <<"remove", "returned">>,
     <<"open", "raised">>, <<"getsize", "raised">>, <<"parse", "raised">>}

C15_TaskStep ==
    \A t \in Tasks :
        pc'[t] /= pc[t] =>
            /\ <<pc[t], pc'[t]>> \in StepOrder
            /\ pc'[t] = "getsize" => filepath'[t] = Filename(futures[t])
            /\ pc'[t] = "remove" => ephemeral_mode
            /\ (pc[t] = "parse" /\ pc'[t] = "returned") => ~ephemeral_mode
            /\ pc[t] = "get" =>
                  IF Ok(Remote(futures[t]))
                  THEN pc'[t] = "open"
                  ELSE /\ pc'[t] = "returned"
                       /\ filepath'[t] = ""
                       /\ domain_set'[t] = {}
                       /\ \A a \in accessed' : a[1] /= t
                       /\ \A i \in DOMAIN writers' : t \notin writers'[i]

C15_StepOrder == [][C15_TaskStep]_vars

\* In an ephemeral run one task is done after a failed download and another
\* after it removed the file it had read.
C15_Witness ==
    /\ ephemeral_mode
    /\ \E t1, t2 \in Tasks :
          /\ pc[t1] = "returned"
          /\ DownloadFailed(t1)
          /\ domain_set[t1] = {}
          /\ pc[t2] = "returned"
          /\ <<t2, t2>> \in accessed
          /\ domain_set[t2] /= {}
          /\ ~exists(dir, filepath[t2])

\* ------------------------------------------------------------------------
\* C16: an exception that leaves a task is caught where the main thread
\* reads the task's completion: that step changes nothing in the result
\* mapping and stays in the loop; the loop is never stuck while a finished
\* task waits to be handed out, and it is left only when every completion
\* was handed out; and at the end every task that returned has its key with
\* its domains, whatever other task raised.
\* ------------------------------------------------------------------------
C16_CatchStep ==
    \A t \in Tasks :
        (pc[t] = "raised" /\ t \notin yielded /\ t \in yielded') =>
            /\ result' = result
            /\ mainpc' = "as_completed"
            /\ pc' = pc

C16_EscapedFaultIsCaught ==
    /\ [][C16_CatchStep]_vars
    /\ []((mainpc = "as_completed" /\ \E t \in Tasks : Finished(t) /\ t \notin yielded)
              => ENABLED MainStep)
    /\ [](mainpc /= "as_completed" => yielded = Tasks)
    /\ [](mainpc = "end" =>
             \A t \in Tasks :
                 pc[t] = "returned" =>
                     /\ pdf_filename(t) \in DOMAIN result
                     /\ domain_set[t] \subseteq result[pdf_filename(t)])

\* The run ended; one task had raised and was handed out, the other's
\* domains are in the mapping.
C16_Witness ==
    /\ mainpc = "end"
    /\ \E t1, t2 \in Tasks :
          /\ pc[t1] = "raised"
          /\ t1 \in yielded
          /\ pc[t2] = "returned"
          /\ domain_set[t2] /= {}
          /\ result[pdf_filename(t2)] = domain_set[t2]

\* ------------------------------------------------------------------------
\* C17: download_pdf short-circuit.  The existence check that finds a file
\* of the derived name returns its path and changes neither the folder nor
\* any file, and a task whose check found the file issues no GET and opens
\* no file for writing.
\* ------------------------------------------------------------------------
C17_CheckStep ==
    \A t \in Tasks :
        (pc[t] = "exists" /\ pc'[t] /= "exists" /\ exists(dir, Filename(futures[t]))) =>
            /\ filepath'[t] = Filename(futures[t])
            /\ pc'[t] = "getsize"
            /\ gets' = gets
            /\ dir' = dir
            /\ disk' = disk

C17_ExistingFileShortCircuits ==
    /\ [][C17_CheckStep]_vars
    /\ [](\A t \in Tasks :
             seen[t] = "present" =>
                 /\ gets[t] = 0
                 /\ pc[t] \notin {"get", "open", "write"}
                 /\ \A i \in DOMAIN writers : t \notin writers[i])

\* A task found its file in the folder and returned the file's domains
\* without a GET.
C17_Witness ==
    \E t \in Tasks :
        /\ seen[t] = "present"
        /\ pc[t] = "returned"
        /\ gets[t] = 0
        /\ domain_set[t] /= {}

\* ------------------------------------------------------------------------
\* C18: all-or-nothing write.  The file a task is about to read (size check,
\* annotation pass, text pass) holds the complete body of one status-200
\* response (or is a file of an earlier run), never an empty or partly
\* written one, and a task whose download failed has created no file.
\* ------------------------------------------------------------------------
CompleteBodies == {Remote(u).content : u \in {v \in PdfUrls : Ok(Remote(v))}} \cup {BodyOld}

C18_AllOrNothingWrite ==
    \A t \in Tasks :
        /\ (pc[t] \in {"getsize", "annot", "text"} /\ exists(dir, filepath[t])) =>
               disk[dir[filepath[t]]] \in CompleteBodies
        /\ DownloadFailed(t) => \A i \in DOMAIN writers : t \notin writers[i]

\* ------------------------------------------------------------------------
\* C21 as claimed: every domain stored under a key was resolved from a link
\* in the body of a status-200 response to a submitted URL that derives this
\* key as its file name.
\* ------------------------------------------------------------------------
LinkDomains(content) ==
    UNION {Parsed(content[i].link).domains : i \in 1..Len(content)}

ResponseDomains(name) ==
    UNION {LinkDomains(Remote(futures[t]).content) :
              t \in {s \in Tasks : Filename(futures[s]) = name /\ Ok(Remote(futures[s]))}}

C21_DomainsFromOwnResponses ==
    \A name \in DOMAIN result : result[name] \subseteq ResponseDomains(name)

\* C21 as amended: every domain stored under a key was resolved from a link
\* in the body of a status-200 response to a submitted URL that derives this
\* key as its file name, or from the file that was in the folder under this
\* name when the run started; no content contributes to another key.
C21_DomainsFromOwnFile ==
    \A name \in DOMAIN result :
        result[name] \subseteq
            ResponseDomains(name)
                \cup (IF name \in DOMAIN dir0 THEN LinkDomains(disk[dir0[name]]) ELSE {})

\* A run over two file names has ended: one key holds the domains of its
\* response, the other key holds none of them.
C21_Witness ==
    /\ mainpc = "end"
    /\ \E t1, t2 \in Tasks :
          /\ Filename(futures[t1]) /= Filename(futures[t2])
          /\ gets[t1] > 0
          /\ pdf_filename(t1) \in DOMAIN result
          /\ result[pdf_filename(t1)] /= {}
          /\ pdf_filename(t2) \in DOMAIN result
          /\ result[pdf_filename(t2)] = {}

\* ------------------------------------------------------------------------
\* C22: permanent mode leaves existing files alone.  When a download folder
\* is given, no step removes a file or the folder, no step changes the
\* content of a file that was in the folder when the run started, and in
\* every state such a file is still there, opened for writing by no task,
\* with the content it had.
\* ------------------------------------------------------------------------
C22_FrameStep ==
    ~ephemeral_mode =>
        /\ DOMAIN dir \subseteq DOMAIN dir'
        /\ folder => folder'
        /\ \A name \in DOMAIN dir0 :
              /\ dir'[name] = dir[name]
              /\ disk'[dir[name]] = disk[dir[name]]

C22_ExistingFilesUntouched ==
    /\ [][C22_FrameStep]_vars
    /\ [](~ephemeral_mode =>
             /\ rmtree = "no"
             /\ \A name \in DOMAIN dir0 :
                   /\ name \in DOMAIN dir
                   /\ dir[name] = dir0[name]
                   /\ disk[dir[name]] = BodyOld
                   /\ writers[dir[name]] = {})

\* A permanent run has ended: one task found its file in the folder and
\* returned its domains, another task wrote a new file beside it, and both
\* files are there.
C22_Witness ==
    /\ ~ephemeral_mode
    /\ mainpc = "end"
    /\ dir0 = OldFiles
    /\ \E t \in Tasks :
          /\ seen[t] = "present"
          /\ pc[t] = "returned"
          /\ Filename(futures[t]) \in DOMAIN dir0
    /\ \E t \in Tasks :
          /\ writers[t] = {t}
          /\ \E name \in DOMAIN dir \ DOMAIN dir0 : dir[name] = t

====
